---- MODULE Spec2Model ----
(***************************************************************************)
(* Model of tabled's BorderColor (settings/style/border_color.rs): the     *)
(* type-state builder over GridBorder<Color> and its two `change`          *)
(* implementations (CellOption, TableOption) that write the border colors  *)
(* into the ColoredConfig.                                                 *)
(***************************************************************************)
EXTENDS Integers, Sequences, FiniteSets, TLC

(* ------------------------------ bounds --------------------------------- *)
NumColors == 2
MaxRows == 2
MaxCols == 2
MaxApplies == 2

(* ------------------------------ colors --------------------------------- *)
Palette == <<"Red", "Green", "Magenta", "Blue", "Yellow", "Cyan", "White", "Black">>

Colors == {Palette[i] : i \in 1..NumColors}

\* The colors passed to the corner setters: one more than to the sides.
CornerColors == Colors \cup {"Magenta"}

\* Option::None of an attribute; Some(c) is written c.
None == "None"

\* The type-state markers of BorderColor<T, B, L, R>: () and On.
Unit == "()"

On == "On"

(* --------------------------- GridBorder<Color> ------------------------- *)
Attrs == {"top", "bottom", "left", "right", "left_top_corner",
          "right_top_corner", "left_bottom_corner", "right_bottom_corner"}

GridBorder_empty ==
    [top |-> None, bottom |-> None, left |-> None, right |-> None,
     left_top_corner |-> None, right_top_corner |-> None,
     left_bottom_corner |-> None, right_bottom_corner |-> None]

GridBorder_full(t, b, l, r, tl, tr, bl, br) ==
    [top |-> t, bottom |-> b, left |-> l, right |-> r,
     left_top_corner |-> tl, right_top_corner |-> tr,
     left_bottom_corner |-> bl, right_bottom_corner |-> br]

(* ------------------------------ BorderColor ---------------------------- *)
\* The value of "no builder": before construction and after a consuming call.
NoBuilder == [inner |-> GridBorder_empty, _top |-> "-", _bottom |-> "-",
              _left |-> "-", _right |-> "-"]

from_border(inner, T, B, L, R) ==
    [inner |-> inner, _top |-> T, _bottom |-> B, _left |-> L, _right |-> R]

new == from_border(GridBorder_empty, Unit, Unit, Unit, Unit)

\* full with the two middle corners passed in each other's place.
full_M(t, b, l, r, tl, tr, bl, br) ==
    from_border(GridBorder_full(t, b, l, r, tl, bl, tr, br), On, On, On, On)

full(t, b, l, r, tl, tr, bl, br) ==
    from_border(GridBorder_full(t, b, l, r, tl, tr, bl, br), On, On, On, On)

\* filled that sets the four sides through the setters and forgets the corners.
filled_M(c) ==
    from_border([GridBorder_empty EXCEPT !.top = c, !.bottom = c, !.left = c,
                                         !.right = c], On, On, On, On)

filled(c) == full(c, c, c, c, c, c, c, c)

\* top that keeps a color that is already there.
top_M(self, c) ==
    from_border([self.inner EXCEPT !.top = IF @ = None THEN c ELSE @],
                On, self._bottom, self._left, self._right)

top(self, c) ==
    from_border([self.inner EXCEPT !.top = c],
                On, self._bottom, self._left, self._right)

\* bottom that builds its result from an empty border instead of self.inner.
bottom_M(self, c) ==
    from_border([GridBorder_empty EXCEPT !.bottom = c],
                self._top, On, self._left, self._right)

bottom(self, c) ==
    from_border([self.inner EXCEPT !.bottom = c],
                self._top, On, self._left, self._right)

\* left that stores its color in the right attribute.
left_M(self, c) ==
    from_border([self.inner EXCEPT !.right = c],
                self._top, self._bottom, On, self._right)

left(self, c) ==
    from_border([self.inner EXCEPT !.left = c],
                self._top, self._bottom, On, self._right)

\* right whose return type also marks the left side as set.
right_M(self, c) ==
    from_border([self.inner EXCEPT !.right = c],
                self._top, self._bottom, On, On)

right(self, c) ==
    from_border([self.inner EXCEPT !.right = c],
                self._top, self._bottom, self._left, On)

into_inner(self) == self.inner

\* The receiver types of the four impl blocks that hold the corner setters.
\* The impl block of corner_top_left with the left marker left generic.
impl_corner_top_left_M(self) == self._top = On

impl_corner_top_left(self) == self._top = On /\ self._left = On

impl_corner_top_right(self) == self._top = On /\ self._right = On

impl_corner_bottom_left(self) == self._bottom = On /\ self._left = On

impl_corner_bottom_right(self) == self._bottom = On /\ self._right = On

corner_top_left(self, c) == [self EXCEPT !.inner.left_top_corner = c]

\* corner_top_right that writes the bottom left corner.
corner_top_right_M(self, c) == [self EXCEPT !.inner.left_bottom_corner = c]

corner_top_right(self, c) == [self EXCEPT !.inner.right_top_corner = c]

corner_bottom_left(self, c) == [self EXCEPT !.inner.left_bottom_corner = c]

\* corner_bottom_right that also writes the bottom side.
corner_bottom_right_M(self, c) ==
    [self EXCEPT !.inner.right_bottom_corner = c, !.inner.bottom = c]

corner_bottom_right(self, c) == [self EXCEPT !.inner.right_bottom_corner = c]

(* ------------------------------- state --------------------------------- *)
VARIABLES
    pc,            \* "start" | "building" | "done": the life of one builder
    builder,       \* the BorderColor value the caller owns
    descriptor,    \* the GridBorder<Color> extracted by into_inner
    origin,        \* the constructor that made the builder: new, full, filled
    requested,     \* the color last passed for each attribute, None if never
    count_rows,    \* records.count_rows()
    count_columns, \* records.count_columns()
    cfg,           \* the border colors of the ColoredConfig, by position
    prev_cfg,      \* cfg at the entry of the last change call
    call,          \* the last change call: its kind, self and entity
    merges,        \* number of set_border_color calls of the last change call
    applies        \* number of change calls made

vars == <<pc, builder, descriptor, origin, requested, count_rows, count_columns, cfg, prev_cfg,
          call, merges, applies>>

applyVars == <<count_rows, count_columns, cfg, prev_cfg, call, merges, applies>>

buildVars == <<pc, builder, descriptor, origin, requested>>

(* ----------------------------- positions ------------------------------- *)
Positions == (0..(MaxRows - 1)) \X (0..(MaxCols - 1))

NoCall == [kind |-> "none", self |-> NoBuilder, entity |-> [kind |-> "none", row |-> 0, col |-> 0]]

(* -------------------------- builder operations ------------------------- *)
CallNew ==
    /\ pc = "start"
    /\ builder' = new
    /\ pc' = "building"
    /\ origin' = "new"
    /\ requested' = [a \in Attrs |-> None]
    /\ UNCHANGED <<descriptor, applyVars>>

CallFull(t, b, l, r, tl, tr, bl, br) ==
    /\ pc = "start"
    /\ builder' = full(t, b, l, r, tl, tr, bl, br)
    /\ pc' = "building"
    /\ origin' = "full"
    /\ requested' = [top |-> t, bottom |-> b, left |-> l, right |-> r,
                     left_top_corner |-> tl, right_top_corner |-> tr,
                     left_bottom_corner |-> bl, right_bottom_corner |-> br]
    /\ UNCHANGED <<descriptor, applyVars>>

CallFilled(c) ==
    /\ pc = "start"
    /\ builder' = filled(c)
    /\ pc' = "building"
    /\ origin' = "filled"
    /\ requested' = [a \in Attrs |-> c]
    /\ UNCHANGED <<descriptor, applyVars>>

CallTop(c) ==
    /\ pc = "building"
    /\ builder' = top(builder, c)
    /\ requested' = [requested EXCEPT !.top = c]
    /\ UNCHANGED <<pc, descriptor, origin, applyVars>>

CallBottom(c) ==
    /\ pc = "building"
    /\ builder' = bottom(builder, c)
    /\ requested' = [requested EXCEPT !.bottom = c]
    /\ UNCHANGED <<pc, descriptor, origin, applyVars>>

CallLeft(c) ==
    /\ pc = "building"
    /\ builder' = left(builder, c)
    /\ requested' = [requested EXCEPT !.left = c]
    /\ UNCHANGED <<pc, descriptor, origin, applyVars>>

CallRight(c) ==
    /\ pc = "building"
    /\ builder' = right(builder, c)
    /\ requested' = [requested EXCEPT !.right = c]
    /\ UNCHANGED <<pc, descriptor, origin, applyVars>>

CallCornerTopLeft(c) ==
    /\ pc = "building"
    /\ impl_corner_top_left(builder)
    /\ builder' = corner_top_left(builder, c)
    /\ requested' = [requested EXCEPT !.left_top_corner = c]
    /\ UNCHANGED <<pc, descriptor, origin, applyVars>>

CallCornerTopRight(c) ==
    /\ pc = "building"
    /\ impl_corner_top_right(builder)
    /\ builder' = corner_top_right(builder, c)
    /\ requested' = [requested EXCEPT !.right_top_corner = c]
    /\ UNCHANGED <<pc, descriptor, origin, applyVars>>

CallCornerBottomLeft(c) ==
    /\ pc = "building"
    /\ impl_corner_bottom_left(builder)
    /\ builder' = corner_bottom_left(builder, c)
    /\ requested' = [requested EXCEPT !.left_bottom_corner = c]
    /\ UNCHANGED <<pc, descriptor, origin, applyVars>>

CallCornerBottomRight(c) ==
    /\ pc = "building"
    /\ impl_corner_bottom_right(builder)
    /\ builder' = corner_bottom_right(builder, c)
    /\ requested' = [requested EXCEPT !.right_bottom_corner = c]
    /\ UNCHANGED <<pc, descriptor, origin, applyVars>>

CallIntoInner ==
    /\ pc = "building"
    /\ descriptor' = into_inner(builder)
    /\ builder' = NoBuilder
    /\ pc' = "done"
    /\ UNCHANGED <<origin, requested, applyVars>>

(* ------------------------------ the apply ------------------------------ *)
\* The SGR code of a palette color: Color::FG_RED is "\u{1b}[31m" .. "\u{1b}[39m".
SgrCode(c) ==
    CASE c = "Black" -> 30 [] c = "Red" -> 31 [] c = "Green" -> 32
      [] c = "Yellow" -> 33 [] c = "Blue" -> 34 [] c = "Magenta" -> 35
      [] c = "Cyan" -> 36 [] c = "White" -> 37

\* Color into the color type of the ColoredConfig: its prefix and suffix.
ColorInto(c) == <<SgrCode(c), 39>>

\* Option::None of an attribute of the ColoredConfig.
NoColor == <<>>

\* The border colors of a position no color was ever set for.
NoBorderColor == [a \in Attrs |-> NoColor]

EmptyConfig == [p \in Positions |-> NoBorderColor]

\* GridBorder::convert: every present attribute converted, absent ones absent.
convert(border) ==
    [a \in Attrs |-> IF border[a] = None THEN NoColor ELSE ColorInto(border[a])]

Global == [kind |-> "Global", row |-> 0, col |-> 0]

Row(r) == [kind |-> "Row", row |-> r, col |-> 0]

Column(c) == [kind |-> "Column", row |-> 0, col |-> c]

Cell(r, c) == [kind |-> "Cell", row |-> r, col |-> c]

\* The coordinates of the whole grid, row by row.
RowMajor(rows, cols) ==
    [i \in 1..(rows * cols) |-> <<(i - 1) \div cols, (i - 1) % cols>>]

\* Entity::iter: the coordinate sequence an entity resolves to.
Entity_iter(entity, rows, cols) ==
    CASE entity.kind = "Global" -> RowMajor(rows, cols)
      [] entity.kind = "Row" ->
            IF entity.row < rows
            THEN [i \in 1..cols |-> <<entity.row, i - 1>>]
            ELSE <<>>
      [] entity.kind = "Column" ->
            IF entity.col < cols
            THEN [i \in 1..rows |-> <<i - 1, entity.col>>]
            ELSE <<>>
      [] entity.kind = "Cell" ->
            IF entity.row < rows /\ entity.col < cols
            THEN <<(<<entity.row, entity.col>>)>>
            ELSE <<>>

\* ColoredConfig::set_border_color: the attribute-wise merge at one position.
set_border_color(config, pos, border) ==
    [config EXCEPT ![pos] =
        [a \in Attrs |-> IF border[a] # NoColor THEN border[a] ELSE @[a]]]

\* The loop of CellOption::change leaving out the coordinate at index i.
RECURSIVE CellLoop_M(_, _, _, _)
CellLoop_M(config, border_color, seq, i) ==
    IF i + 1 > Len(seq)
    THEN config
    ELSE CellLoop_M(set_border_color(config, seq[i + 1], border_color),
                    border_color, seq, i + 1)

\* The loop of CellOption::change going on with the entry it has just merged
\* in place of the descriptor.
RECURSIVE CellLoop_M2(_, _, _, _)
CellLoop_M2(config, border_color, seq, i) ==
    IF i > Len(seq)
    THEN config
    ELSE CellLoop_M2(set_border_color(config, seq[i], border_color),
                     set_border_color(config, seq[i], border_color)[seq[i]],
                     seq, i + 1)

\* The for loop of CellOption::change from the i-th coordinate on.
RECURSIVE CellLoop(_, _, _, _)
CellLoop(config, border_color, seq, i) ==
    IF i > Len(seq)
    THEN config
    ELSE CellLoop(set_border_color(config, seq[i], border_color),
                  border_color, seq, i + 1)

\* CellOption::change with the two counts passed to iter in the wrong order.
CellOption_change_M(self, rows, cols, config, entity) ==
    LET border_color == convert(self.inner)
    IN  CellLoop(config, border_color, Entity_iter(entity, cols, rows), 1)

CellOption_change(self, rows, cols, config, entity) ==
    LET border_color == convert(self.inner)
    IN  CellLoop(config, border_color, Entity_iter(entity, rows, cols), 1)

\* The inner loop of TableOption::change: columns col.. of one row.
RECURSIVE TableColLoop(_, _, _, _, _)
TableColLoop(config, border_color, row, col, cols) ==
    IF col >= cols
    THEN config
    ELSE TableColLoop(set_border_color(config, <<row, col>>, border_color),
                      border_color, row, col + 1, cols)

\* The outer loop of TableOption::change: rows row.. of the grid.
RECURSIVE TableRowLoop(_, _, _, _, _)
TableRowLoop(config, border_color, row, rows, cols) ==
    IF row >= rows
    THEN config
    ELSE TableRowLoop(TableColLoop(config, border_color, row, 0, cols),
                      border_color, row + 1, rows, cols)

\* TableOption::change with the row loop starting at 1.
TableOption_change_M(self, rows, cols, config) ==
    LET border_color == convert(self.inner)
    IN  TableRowLoop(config, border_color, 1, rows, cols)

TableOption_change(self, rows, cols, config) ==
    LET border_color == convert(self.inner)
    IN  TableRowLoop(config, border_color, 0, rows, cols)

\* The number of set_border_color calls of the two change implementations.
CellOption_merges(rows, cols, entity) == Len(Entity_iter(entity, rows, cols))

\* The inner loop of TableOption::change with the range 0..=count_columns.
RECURSIVE TableColVisits_M(_, _, _)
TableColVisits_M(row, col, cols) ==
    IF col > cols
    THEN <<>>
    ELSE <<(<<row, col>>)>> \o TableColVisits_M(row, col + 1, cols)

\* The coordinates the inner loop of TableOption::change visits, in order.
RECURSIVE TableColVisits(_, _, _)
TableColVisits(row, col, cols) ==
    IF col >= cols
    THEN <<>>
    ELSE <<(<<row, col>>)>> \o TableColVisits(row, col + 1, cols)

\* The coordinates the two loops of TableOption::change visit, in order.
RECURSIVE TableRowVisits(_, _, _)
TableRowVisits(row, rows, cols) ==
    IF row >= rows
    THEN <<>>
    ELSE TableColVisits(row, 0, cols) \o TableRowVisits(row + 1, rows, cols)

TableOption_merges(rows, cols) == Len(TableRowVisits(0, rows, cols))

\* full(top=Red, bottom=Blue, left=Green, right=Yellow, tl=Red, tr=Yellow,
\* bl=Green, br=Blue)
FullOfFourColors ==
    full("Red", "Blue", "Green", "Yellow", "Red", "Yellow", "Green", "Blue")

\* The BorderColor values handed to change.
ApplyBuilders ==
    { new,
      top(new, "Red"),
      bottom(new, "Green"),
      corner_top_left(left(top(new, "Red"), "Green"), "Magenta"),
      FullOfFourColors }

\* The entities handed to CellOption::change; some lie outside smaller grids.
Entities ==
    {Global}
    \cup {Row(r) : r \in 0..MaxRows}
    \cup {Column(c) : c \in 0..MaxCols}
    \cup {Cell(r, c) : r \in 0..(MaxRows - 1), c \in 0..(MaxCols - 1)}

CellChange(self, entity) ==
    /\ applies < MaxApplies
    /\ cfg' = CellOption_change(self, count_rows, count_columns, cfg, entity)
    /\ prev_cfg' = cfg
    /\ call' = [kind |-> "cell", self |-> self, entity |-> entity]
    /\ merges' = CellOption_merges(count_rows, count_columns, entity)
    /\ applies' = applies + 1
    /\ UNCHANGED <<buildVars, count_rows, count_columns>>

TableChange(self) ==
    /\ applies < MaxApplies
    /\ cfg' = TableOption_change(self, count_rows, count_columns, cfg)
    /\ prev_cfg' = cfg
    /\ call' = [kind |-> "table", self |-> self, entity |-> Global]
    /\ merges' = TableOption_merges(count_rows, count_columns)
    /\ applies' = applies + 1
    /\ UNCHANGED <<buildVars, count_rows, count_columns>>

InitApply ==
    /\ pc = "start"
    /\ builder = NoBuilder
    /\ descriptor = GridBorder_empty
    /\ origin = "none"
    /\ requested = [a \in Attrs |-> None]
    /\ count_rows \in 0..MaxRows
    /\ count_columns \in 0..MaxCols
    /\ cfg = EmptyConfig
    /\ prev_cfg = EmptyConfig
    /\ call = NoCall
    /\ merges = 0
    /\ applies = 0

NextApply ==
    \/ \E self \in ApplyBuilders, entity \in Entities : CellChange(self, entity)
    \/ \E self \in ApplyBuilders : TableChange(self)

SpecApply == InitApply /\ [][NextApply]_vars

(* --------------------- specification of the builder -------------------- *)
Init ==
    /\ pc = "start"
    /\ builder = NoBuilder
    /\ descriptor = GridBorder_empty
    /\ origin = "none"
    /\ requested = [a \in Attrs |-> None]
    /\ count_rows = 0
    /\ count_columns = 0
    /\ cfg = EmptyConfig
    /\ prev_cfg = EmptyConfig
    /\ call = NoCall
    /\ merges = 0
    /\ applies = 0

Next ==
    \/ CallNew
    \/ pc = "start" /\ \E t, b, l, r, tl, tr, bl, br \in Colors :
                          CallFull(t, b, l, r, tl, tr, bl, br)
    \/ \E c \in Colors : CallFilled(c)
    \/ \E c \in Colors : CallTop(c)
    \/ \E c \in Colors : CallBottom(c)
    \/ \E c \in Colors : CallLeft(c)
    \/ \E c \in Colors : CallRight(c)
    \/ \E c \in CornerColors : CallCornerTopLeft(c)
    \/ \E c \in CornerColors : CallCornerTopRight(c)
    \/ \E c \in CornerColors : CallCornerBottomLeft(c)
    \/ \E c \in CornerColors : CallCornerBottomRight(c)
    \/ CallIntoInner

Spec == Init /\ [][Next]_vars

(* ------------------------- claims on the builder ----------------------- *)
Sides == {"top", "bottom", "left", "right"}

Corners == Attrs \ Sides

\* The two sides that meet in a corner.
SidesOf(corner) ==
    CASE corner = "left_top_corner" -> {"top", "left"}
      [] corner = "right_top_corner" -> {"top", "right"}
      [] corner = "left_bottom_corner" -> {"bottom", "left"}
      [] corner = "right_bottom_corner" -> {"bottom", "right"}

\* Whether the builder's type marks the side as set.
SideSet(self, side) ==
    CASE side = "top" -> self._top = On
      [] side = "bottom" -> self._bottom = On
      [] side = "left" -> self._left = On
      [] side = "right" -> self._right = On

CornerImpliesSides(border) ==
    \A corner \in Corners :
        border[corner] # None => \A side \in SidesOf(corner) : border[side] # None

\* C1: while a builder exists, each corner setter can be called if and only
\* if both of its adjacent sides are marked set in the builder's type; with
\* one or both sides unset no call of it is possible.
C1_CornerPermittedIffSidesSet ==
    pc = "building" =>
        /\ (ENABLED (\E c \in CornerColors : CallCornerTopLeft(c)))
              <=> (SideSet(builder, "top") /\ SideSet(builder, "left"))
        /\ (ENABLED (\E c \in CornerColors : CallCornerTopRight(c)))
              <=> (SideSet(builder, "top") /\ SideSet(builder, "right"))
        /\ (ENABLED (\E c \in CornerColors : CallCornerBottomLeft(c)))
              <=> (SideSet(builder, "bottom") /\ SideSet(builder, "left"))
        /\ (ENABLED (\E c \in CornerColors : CallCornerBottomRight(c)))
              <=> (SideSet(builder, "bottom") /\ SideSet(builder, "right"))

\* A builder made by new() whose top left corner has been set while its
\* bottom side is unset, so that both bottom corner setters are rejected.
C1_Witness ==
    /\ pc = "building"
    /\ origin = "new"
    /\ builder.inner.left_top_corner # None
    /\ ~SideSet(builder, "bottom")
    /\ SideSet(builder, "right")

\* C2: in every builder state and in every extracted descriptor a corner
\* attribute is present only if both side attributes forming it are present.
C2_CornerOnlyWithSides ==
    /\ CornerImpliesSides(builder.inner)
    /\ CornerImpliesSides(descriptor)

\* An extracted descriptor with a corner present and another side absent.
C2_Witness ==
    /\ pc = "done"
    /\ descriptor.right_top_corner # None
    /\ descriptor.bottom = None
    /\ descriptor.left = None

\* C3: a descriptor extracted from a builder that started from new() has
\* exactly the requested attributes, each with the color last passed to its
\* setter, and every other attribute absent.
C3_ExactlyRequested ==
    (pc = "done" /\ origin = "new") =>
        \A a \in Attrs : descriptor[a] = requested[a]

\* new().top(Red).left(Green).corner_top_left(Magenta).into_inner()
C3_Witness ==
    /\ pc = "done"
    /\ origin = "new"
    /\ descriptor = [GridBorder_empty EXCEPT !.top = "Red", !.left = "Green",
                                             !.left_top_corner = "Magenta"]

\* C8: filled(c) yields the builder full(c, c, c, c, c, c, c, c): all eight
\* attributes present and equal to c, all four sides marked set.
C8_FilledIsFullOfOneColor ==
    [][(pc = "start" /\ origin' = "filled") =>
          \E c \in Colors :
              /\ \A a \in Attrs : requested'[a] = c
              /\ builder' = full(c, c, c, c, c, c, c, c)
              /\ \A a \in Attrs : builder'.inner[a] = c
              /\ \A side \in Sides : SideSet(builder', side)]_vars

\* The builder as filled(Red) returns it.
C8_Witness ==
    /\ pc = "building"
    /\ origin = "filled"
    /\ \A a \in Attrs : requested[a] = "Red" /\ builder.inner[a] = "Red"

\* C9: full(...) yields in one step a builder with all four sides marked set
\* and the eight attributes holding the given colors, so that all four corner
\* setters are permitted in the state it returns.
C9_FullAllSetInOneStep ==
    [][(pc = "start" /\ origin' = "full") =>
          /\ pc' = "building"
          /\ \A side \in Sides : SideSet(builder', side)
          /\ \A a \in Attrs : requested'[a] \in Colors
                              /\ builder'.inner[a] = requested'[a]
          /\ impl_corner_top_left(builder')
          /\ impl_corner_top_right(builder')
          /\ impl_corner_bottom_left(builder')
          /\ impl_corner_bottom_right(builder')]_vars

\* The builder as full(Red, Green, Red, Green, Green, Red, Green, Red)
\* returns it.
C9_Witness ==
    /\ pc = "building"
    /\ origin = "full"
    /\ builder = from_border(
           [top |-> "Red", bottom |-> "Green", left |-> "Red", right |-> "Green",
            left_top_corner |-> "Green", right_top_corner |-> "Red",
            left_bottom_corner |-> "Green", right_bottom_corner |-> "Red"],
           On, On, On, On)
    /\ requested = builder.inner

\* The builder after a corner setter: the type markers are those of before
\* and only the one corner attribute may differ, holding the color passed.
CornerFrame(corner, c) ==
    /\ \A side \in Sides : SideSet(builder', side) <=> SideSet(builder, side)
    /\ <<builder'._top, builder'._bottom, builder'._left, builder'._right>>
         = <<builder._top, builder._bottom, builder._left, builder._right>>
    /\ \A a \in Attrs \ {corner} : builder'.inner[a] = builder.inner[a]
    /\ builder'.inner[corner] = c

\* C10: a permitted corner setter changes only its own corner attribute: the
\* side-set state and the other seven attributes are those of before.  (A
\* step is a call of a corner setter exactly if it is its call with the color
\* that the step records as last passed for that corner.)
C10_CornerSetterFrame ==
    [][(pc = "building" /\ pc' = "building") =>
          /\ CallCornerTopLeft(requested'.left_top_corner)
                => CornerFrame("left_top_corner", requested'.left_top_corner)
          /\ CallCornerTopRight(requested'.right_top_corner)
                => CornerFrame("right_top_corner", requested'.right_top_corner)
          /\ CallCornerBottomLeft(requested'.left_bottom_corner)
                => CornerFrame("left_bottom_corner", requested'.left_bottom_corner)
          /\ CallCornerBottomRight(requested'.right_bottom_corner)
                => CornerFrame("right_bottom_corner",
                               requested'.right_bottom_corner)]_vars

\* A builder made by new() with the bottom right corner set, the top and
\* left sides unset and three attributes of three colors.
C10_Witness ==
    /\ pc = "building"
    /\ origin = "new"
    /\ builder.inner = [GridBorder_empty EXCEPT !.bottom = "Red",
                                                  !.right = "Green",
                                                  !.right_bottom_corner = "Magenta"]
    /\ ~SideSet(builder, "top")
    /\ ~SideSet(builder, "left")

\* The builder after a side setter: that side is marked set and holds the
\* color passed; the other three markers and seven attributes are unchanged.
SideFrame(side, c) ==
    /\ SideSet(builder', side)
    /\ \A other \in Sides \ {side} : SideSet(builder', other) <=> SideSet(builder, other)
    /\ builder'.inner[side] = c
    /\ \A a \in Attrs \ {side} : builder'.inner[a] = builder.inner[a]

\* C11: each side setter can be called in every builder state; it marks
\* exactly its side as set and stores the color in that side's attribute,
\* leaving the other three markers and the other seven attributes unchanged.
C11_SideSetterFrame ==
    /\ [](pc = "building" =>
            /\ ENABLED (\E c \in Colors : CallTop(c))
            /\ ENABLED (\E c \in Colors : CallBottom(c))
            /\ ENABLED (\E c \in Colors : CallLeft(c))
            /\ ENABLED (\E c \in Colors : CallRight(c)))
    /\ [][(pc = "building" /\ pc' = "building") =>
             /\ CallTop(requested'.top) => SideFrame("top", requested'.top)
             /\ CallBottom(requested'.bottom)
                   => SideFrame("bottom", requested'.bottom)
             /\ CallLeft(requested'.left) => SideFrame("left", requested'.left)
             /\ CallRight(requested'.right)
                   => SideFrame("right", requested'.right)]_vars

\* A builder made by new() whose right side was set while the top left corner
\* was already set and the bottom side is still unset.
C11_Witness ==
    /\ pc = "building"
    /\ origin = "new"
    /\ builder.inner = [GridBorder_empty EXCEPT !.top = "Red", !.left = "Green",
                                                  !.left_top_corner = "Magenta",
                                                  !.right = "Red"]
    /\ SideSet(builder, "right")
    /\ ~SideSet(builder, "bottom")

\* C13: along the setter calls on one builder a side that is marked set with
\* its attribute present stays marked set with its attribute present, so a
\* corner setter that is permitted stays permitted.
C13_SideSetMonotone ==
    [][(pc = "building" /\ pc' = "building") =>
          /\ \A side \in Sides :
                 (SideSet(builder, side) /\ builder.inner[side] # None) =>
                     (SideSet(builder', side) /\ builder'.inner[side] # None)
          /\ impl_corner_top_left(builder) => impl_corner_top_left(builder')
          /\ impl_corner_top_right(builder) => impl_corner_top_right(builder')
          /\ impl_corner_bottom_left(builder)
                => impl_corner_bottom_left(builder')
          /\ impl_corner_bottom_right(builder)
                => impl_corner_bottom_right(builder')]_vars

\* A builder made by new() with top, left and bottom set and no corner set
\* yet: corner_top_left and corner_bottom_left are permitted, the right
\* corners are not.
C13_Witness ==
    /\ pc = "building"
    /\ origin = "new"
    /\ builder.inner = [GridBorder_empty EXCEPT !.top = "Red", !.left = "Red",
                                                  !.bottom = "Green"]
    /\ impl_corner_top_left(builder)
    /\ impl_corner_bottom_left(builder)
    /\ ~impl_corner_top_right(builder)

\* The attributes in the order of their setters in the source.
AttrSeq == <<"top", "bottom", "left", "right", "left_top_corner",
             "right_top_corner", "left_bottom_corner", "right_bottom_corner">>

\* Whether the setter of an attribute can be called on a builder.
Permitted(self, a) ==
    CASE a = "left_top_corner" -> impl_corner_top_left(self)
      [] a = "right_top_corner" -> impl_corner_top_right(self)
      [] a = "left_bottom_corner" -> impl_corner_bottom_left(self)
      [] a = "right_bottom_corner" -> impl_corner_bottom_right(self)
      [] OTHER -> TRUE

\* The builder the setter of an attribute returns.
SetAttr(self, a, c) ==
    CASE a = "top" -> top(self, c)
      [] a = "bottom" -> bottom(self, c)
      [] a = "left" -> left(self, c)
      [] a = "right" -> right(self, c)
      [] a = "left_top_corner" -> corner_top_left(self, c)
      [] a = "right_top_corner" -> corner_top_right(self, c)
      [] a = "left_bottom_corner" -> corner_bottom_left(self, c)
      [] a = "right_bottom_corner" -> corner_bottom_right(self, c)

\* C15: the descriptor of a builder holds for each attribute the color last
\* passed for it (by the constructor or a setter); calling a setter again
\* overwrites its attribute, and two setters of different attributes that are
\* permitted in either order give the same descriptor in both orders.
C15_LastWriteWins ==
    /\ pc = "building" => \A a \in Attrs : builder.inner[a] = requested[a]
    /\ pc = "done" => \A a \in Attrs : descriptor[a] = requested[a]
    /\ pc = "building" =>
           /\ \A a \in Attrs : \A c1, c2 \in Colors :
                  Permitted(builder, a) =>
                      into_inner(SetAttr(SetAttr(builder, a, c1), a, c2))
                          = into_inner(SetAttr(builder, a, c2))
           /\ \A i, j \in 1..Len(AttrSeq) : \A c1, c2 \in Colors :
                  (/\ i < j
                   /\ Permitted(builder, AttrSeq[i])
                   /\ Permitted(builder, AttrSeq[j])
                   /\ Permitted(SetAttr(builder, AttrSeq[i], c1), AttrSeq[j])
                   /\ Permitted(SetAttr(builder, AttrSeq[j], c2), AttrSeq[i])) =>
                      into_inner(SetAttr(SetAttr(builder, AttrSeq[i], c1),
                                         AttrSeq[j], c2))
                          = into_inner(SetAttr(SetAttr(builder, AttrSeq[j], c2),
                                               AttrSeq[i], c1))

\* The descriptor of filled(Red) after top(Green) and corner_top_left(Magenta):
\* the two attributes hold the colors passed last.
C15_Witness ==
    /\ pc = "done"
    /\ origin = "filled"
    /\ descriptor = [[a \in Attrs |-> "Red"] EXCEPT
                         !.top = "Green", !.left_top_corner = "Magenta"]

(* -------------------------- claims on the apply ------------------------ *)
\* The coordinates the last change call had to visit.
Resolved ==
    IF call.kind = "cell"
    THEN {Entity_iter(call.entity, count_rows, count_columns)[i] :
             i \in 1..Len(Entity_iter(call.entity, count_rows, count_columns))}
    ELSE IF call.kind = "table"
    THEN (0..(count_rows - 1)) \X (0..(count_columns - 1))
    ELSE {}

\* C4: at every coordinate the selector resolves to, each attribute present in
\* the descriptor holds the descriptor's color after the call and each absent
\* attribute holds what the configuration held there before the call.
C4_AttributeWiseUpsert ==
    call.kind # "none" =>
        \A p \in Resolved : \A a \in Attrs :
            cfg[p][a] = IF call.self.inner[a] # None
                        THEN ColorInto(call.self.inner[a])
                        ELSE prev_cfg[p][a]

\* {top: Red} applied onto an entry holding only {bottom: Green} gives
\* {top: Red, bottom: Green}.
C4_Witness ==
    /\ call.kind = "cell"
    /\ call.self = top(new, "Red")
    /\ <<0, 0>> \in Resolved
    /\ prev_cfg[<<0, 0>>] = [NoBorderColor EXCEPT !.bottom = ColorInto("Green")]
    /\ cfg[<<0, 0>>] = [NoBorderColor EXCEPT !.top = ColorInto("Red"),
                                             !.bottom = ColorInto("Green")]

\* C5: a change through the entity path with the entity of the whole grid
\* ends in the configuration the whole-grid path ends in from the same
\* configuration, and the other way round.
C5_GlobalEntityIsTablePath ==
    /\ (call.kind = "cell" /\ call.entity = Global) =>
           cfg = TableOption_change(call.self, count_rows, count_columns, prev_cfg)
    /\ call.kind = "table" =>
           cfg = CellOption_change(call.self, count_rows, count_columns,
                                   prev_cfg, Global)

\* A whole-grid change of a 2 x 2 grid over a configuration that held colors.
C5_Witness ==
    /\ call.kind = "table"
    /\ count_rows = 2
    /\ count_columns = 2
    /\ prev_cfg # EmptyConfig
    /\ cfg # prev_cfg

\* C6: a change whose entity resolves to no coordinate leaves the whole
\* configuration as it was.
C6_EmptySelectorChangesNothing ==
    (call.kind = "cell"
     /\ Len(Entity_iter(call.entity, count_rows, count_columns)) = 0) =>
        cfg = prev_cfg

\* The full border applied to row 1 of a grid of one row and two columns that
\* already held colors.
C6_Witness ==
    /\ call.kind = "cell"
    /\ call.entity = Row(1)
    /\ count_rows = 1
    /\ count_columns = 2
    /\ call.self = FullOfFourColors
    /\ prev_cfg # EmptyConfig
    /\ cfg = prev_cfg

\* C7: a change leaves every coordinate outside the resolved sequence as it
\* was; on a 2 x 2 grid with an empty configuration the full border of four
\* colors applied to (0,0) gives one entry, at (0,0), with the 8 colors given.
C7_OnlyResolvedCoordinatesChange ==
    /\ call.kind # "none" =>
           \A p \in Positions \ Resolved : cfg[p] = prev_cfg[p]
    /\ (/\ call.kind = "cell"
        /\ call.self = FullOfFourColors
        /\ call.entity = Cell(0, 0)
        /\ count_rows = 2
        /\ count_columns = 2
        /\ prev_cfg = EmptyConfig) =>
           /\ cfg[<<0, 0>>] =
                 [top |-> ColorInto("Red"), bottom |-> ColorInto("Blue"),
                  left |-> ColorInto("Green"), right |-> ColorInto("Yellow"),
                  left_top_corner |-> ColorInto("Red"),
                  right_top_corner |-> ColorInto("Yellow"),
                  left_bottom_corner |-> ColorInto("Green"),
                  right_bottom_corner |-> ColorInto("Blue")]
           /\ \A p \in {<<0, 1>>, <<1, 0>>, <<1, 1>>} : cfg[p] = NoBorderColor

\* The full border of four colors applied to (0,0) of an empty 2 x 2 grid.
C7_Witness ==
    /\ call.kind = "cell"
    /\ call.self = FullOfFourColors
    /\ call.entity = Cell(0, 0)
    /\ count_rows = 2
    /\ count_columns = 2
    /\ prev_cfg = EmptyConfig
    /\ cfg[<<0, 0>>] # NoBorderColor
    /\ cfg[<<1, 1>>] = NoBorderColor

\* C12: a change call makes a finite number of merges; the whole-grid path
\* makes exactly one merge per coordinate (row, col) of the grid, so
\* count_rows * count_columns of them, and none when either count is 0.
C12_OneMergePerCoordinate ==
    /\ call.kind = "cell" =>
           merges = Len(Entity_iter(call.entity, count_rows, count_columns))
    /\ call.kind = "table" =>
           LET visits == TableRowVisits(0, count_rows, count_columns)
               grid == (0..(count_rows - 1)) \X (0..(count_columns - 1))
           IN  /\ merges = Len(visits)
               /\ merges = count_rows * count_columns
               /\ (count_rows = 0 \/ count_columns = 0) => merges = 0
               /\ \A p \in grid :
                      Cardinality({i \in 1..Len(visits) : visits[i] = p}) = 1
               /\ \A i \in 1..Len(visits) : visits[i] \in grid
               /\ cfg = CellLoop(prev_cfg, convert(call.self.inner), visits, 1)

\* A whole-grid change of a grid of two rows and one column: two merges.
C12_Witness ==
    /\ call.kind = "table"
    /\ count_rows = 2
    /\ count_columns = 1
    /\ merges = 2
    /\ cfg # prev_cfg

\* The coordinates the last change call visited, in order.
Visited ==
    IF call.kind = "cell"
    THEN Entity_iter(call.entity, count_rows, count_columns)
    ELSE IF call.kind = "table"
    THEN TableRowVisits(0, count_rows, count_columns)
    ELSE <<>>

\* C14: a change call that repeats the call before it (same self, same entity)
\* leaves the configuration as the first left it, and merging the descriptor
\* over a coordinate sequence that lists every coordinate twice ends in the
\* configuration the call ended in.
C14_ApplyIdempotent ==
    /\ [][(call.kind # "none" /\ call' = call /\ applies' = applies + 1) =>
             cfg' = cfg]_vars
    /\ [](call.kind # "none" =>
             /\ CellLoop(prev_cfg, convert(call.self.inner),
                         Visited \o Visited, 1) = cfg
             /\ CellLoop(cfg, convert(call.self.inner), Visited, 1) = cfg)

\* The border {top, left, top left corner} applied to row 1 of a 2 x 2 grid
\* for the second time in a row.
C14_Witness ==
    /\ applies = 2
    /\ call.kind = "cell"
    /\ call.entity = Row(1)
    /\ call.self = corner_top_left(left(top(new, "Red"), "Green"), "Magenta")
    /\ count_rows = 2
    /\ count_columns = 2
    /\ prev_cfg[<<0, 0>>] = NoBorderColor
    /\ prev_cfg[<<0, 1>>] = NoBorderColor
    /\ prev_cfg[<<1, 0>>] = convert(call.self.inner)
    /\ prev_cfg[<<1, 1>>] = convert(call.self.inner)
    /\ cfg = prev_cfg

====
